---- MODULE Spec2Model ----
(***************************************************************************)
(* Model of the retrieval service of Enterprise-RAG-2.0.                   *)
(*                                                                         *)
(* create_rag.py overwrites src/api/server.py with the RAG server; the     *)
(* checked-in src/api/server.py is the minimal server (root and health     *)
(* only).  A service process loads whichever file is on disk.  The RAG     *)
(* server runs startup_event (check-then-create of the collection) and     *)
(* then serves root, health, add_document, search and embed.               *)
(*                                                                         *)
(* The embedding provider (openai) and the vector store (qdrant) are       *)
(* external: each call to them may fail, and the store enforces its own    *)
(* rules (unique collection name, vector size of the collection).          *)
(* A vector is a record [dim, head]: its length and its first three        *)
(* components (fixed point, norm 10); the remaining components are 0.      *)
(* A text is a sequence of characters.                                     *)
(***************************************************************************)
EXTENDS Integers, Sequences, FiniteSets, TLC

VARIABLES file, app, pc, log, listCalls, createCalls, raced,
          coll, created, points, uuids, inflight, resp

vars == <<file, app, pc, log, listCalls, createCalls, raced,
          coll, created, points, uuids, inflight, resp>>

\* ---------------------------------------------------------------- bounds
\* requests admitted in a run, and requests waiting for the provider at once
MaxRequests == 2
MaxInFlight == 2

\* the service processes that share the store
Procs == {"p1", "p2"}

\* ------------------------------------------------------ program constants
COLLECTION_NAME == "ai_docs_2026"
CollectionSize == 1536
CollectionDistance == "Cosine"
\* the model name of another, larger model
EmbeddingModelLarge == "text-embedding-3-large"

EmbeddingModel == "text-embedding-3-small"
DefaultLimit == 3
DefaultEmbedText == <<"H", "e", "l", "l", "o">>
SnippetLen == 100
SampleLen == 3

\* ------------------------------------------------------------ input sets
Texts == {<<>>, <<"a">>, <<"b">>}
Limits == {-1, 0, 1, DefaultLimit}
Queries == {<<>>, <<"a">>}
EmbedTexts == {<<>>, DefaultEmbedText}
\* documents an earlier run of the service left in the store
PriorTexts == <<<<"a">>, <<"b">>>>
\* a collection of the same name made by somebody else, with another size
ForeignSizes == {768}

Min(a, b) == IF a <= b THEN a ELSE b

\* ------------------------------------------------- embedding provider
\* length of the vectors the configured model returns
EmbeddingDim(model) ==
    IF model = "text-embedding-3-small" THEN 1536 ELSE 3072

\* first three components of the provider's vector for a text
EmbeddingHead(text) ==
    CASE text = <<"a">> -> <<10, 0, 0>>
      [] text = <<"b">> -> <<6, 8, 0>>
      [] OTHER -> <<0, 10, 0>>

\* response.data[0].embedding
ProviderEmbedding(text) ==
    [dim |-> EmbeddingDim(EmbeddingModel), head |-> EmbeddingHead(text)]

\* the provider rejects an empty input; any call may fail
ProviderOutcomes(text) == IF text = <<>> THEN {FALSE} ELSE BOOLEAN

\* ------------------------------------------------------- vector store
NoColl == [exists |-> FALSE, size |-> 0, distance |-> "none"]

\* [c.name for c in collections.collections]
CollectionNames(c) == IF c.exists THEN {COLLECTION_NAME} ELSE {}

\* cosine similarity times 100 (heads have norm 10)
Score(q, v) == q.head[1] * v.head[1] + q.head[2] * v.head[2]
               + q.head[3] * v.head[3]

\* the store accepts a point only into an existing collection of its size
UpsertAccepted(c, vector) == c.exists /\ vector.dim = c.size

\* the store answers a search only on an existing collection of that size;
\* a negative limit is refused, limit 0 is answered by a lenient store only
SearchAccepted(c, vector, limit, lenient) ==
    c.exists /\ vector.dim = c.size
    /\ (limit >= 1 \/ (limit = 0 /\ lenient))

IsInjective(s) == \A i, j \in 1..Len(s) : s[i] = s[j] => i = j

Range(s) == {s[i] : i \in 1..Len(s)}

SeqsOfLen(S, n) == {s \in [1..n -> S] : IsInjective(s)}

\* the nearest neighbours: Min(limit, n) distinct ids, highest score first,
\* none left out that scores higher than one returned
StoreSearch(pts, q, limit) ==
    LET ids == DOMAIN pts
        n == Min(limit, Cardinality(ids))
    IN {h \in SeqsOfLen(ids, n) :
          /\ \A i \in 1..(n - 1) :
                Score(q, pts[h[i]].vector) >= Score(q, pts[h[i + 1]].vector)
          /\ \A i \in 1..n : \A o \in ids \ Range(h) :
                Score(q, pts[o].vector) <= Score(q, pts[h[i]].vector)}

\* ------------------------------------------------------ handler helpers
\* hit.payload["text"][:100]
Snippet(text) == SubSeq(text, 1, Min(Len(text), SnippetLen))

\* embedding[:3]
Sample(v) == SubSeq(v.head, 1, Min(Len(v.head), SampleLen))

\* "if not text" / "if not query"
IsEmpty(text) == Len(text) = 0

\* a search that ignores the caller's limit
SearchLimitIgnored(limit) == DefaultLimit

\* limit=limit in client.search
SearchLimitArg(limit) == limit

\* a point id that is not the fresh uuid
PointIdFixed(doc_id) == 1

\* id=doc_id in PointStruct
PointId(doc_id) == doc_id

\* vector=embedding, payload={"text": text}
Point(embedding, text) == [vector |-> embedding, payload |-> [text |-> text]]

\* the "results" list of the search response, in the order of the hits
ResultList(pts, q, hits) ==
    [i \in 1..Len(hits) |->
        [id |-> hits[i],
         score |-> Score(q, pts[hits[i]].vector),
         text |-> Snippet(pts[hits[i]].payload.text)]]

\* handlers are served once the application's startup has completed
Serving(p) == pc[p] = "ready"

\* The last response sent: the request it answers, the status and body, the
\* collaborator calls the handler made for it, and how the provider and the
\* store answered ("none": not called; the store "refused" a call that
\* breaks its rules and was "unavailable" when it could not be reached).
NoResp == [n |-> 0, kind |-> "none", text |-> <<>>, limit |-> 0,
           status |-> 0, body |-> [none |-> TRUE], calls |-> {},
           provider |-> "none", store |-> "none"]

Response(n, kind, text, limit, status, body, calls, provider, store) ==
    [n |-> n, kind |-> kind, text |-> text, limit |-> limit,
     status |-> status, body |-> body, calls |-> calls,
     provider |-> provider, store |-> store]

\* how the store answers a call that is within its rules or not
StoreOutcome(reached, accepted) ==
    IF ~reached THEN "unavailable" ELSE IF accepted THEN "ok" ELSE "refused"

\* raise HTTPException(status_code=..., detail=...)
HTTPError(detail) == [detail |-> detail]

\* an exception no handler catches
InternalError == [detail |-> "Internal Server Error"]

\* a handler suspended at its await; two equal requests are not kept apart
Request(kind, text, limit) ==
    [kind |-> kind, text |-> text, limit |-> limit]

\* requests admitted so far: answered or waiting
Arrived == resp.n + Cardinality(inflight)

\* -------------------------------------------------------------- initial
\* The repository holds the minimal server; no process runs.  The store
\* may already hold a collection of this name, made by an earlier
\* deployment (same size) or by somebody else (another size).
Init ==
    /\ file = "minimal"
    /\ app = [p \in Procs |-> "none"]
    /\ pc = [p \in Procs |-> "off"]
    /\ log = [p \in Procs |-> <<>>]
    /\ listCalls = [p \in Procs |-> 0]
    /\ createCalls = [p \in Procs |-> 0]
    /\ raced = FALSE
    /\ coll \in {NoColl}
               \cup {[exists |-> TRUE, size |-> s, distance |-> CollectionDistance] :
                        s \in {CollectionSize} \cup ForeignSizes}
    /\ created = 0
    /\ \/ points = <<>> /\ uuids = 0
       \/ /\ coll.exists /\ coll.size = CollectionSize
          /\ points = [i \in 1..Len(PriorTexts) |->
                          Point([dim |-> coll.size,
                                 head |-> EmbeddingHead(PriorTexts[i])],
                                PriorTexts[i])]
          /\ uuids = Len(PriorTexts)
    /\ inflight = {}
    /\ resp = NoResp

\* -------------------------------------------------- generator and boot
\* create_rag.py: write rag_code to src/api/server.py
CreateRag ==
    /\ file' = "rag"
    /\ UNCHANGED <<app, pc, log, listCalls, createCalls, raced,
                   coll, created, points, uuids, inflight, resp>>

\* a process imports src/api/server.py; the RAG server has a startup
\* handler, the minimal server has none
Boot(p) ==
    /\ pc[p] = "off"
    /\ app' = [app EXCEPT ![p] = file]
    /\ pc' = [pc EXCEPT ![p] = IF file = "rag" THEN "startup" ELSE "ready"]
    /\ UNCHANGED <<file, log, listCalls, createCalls, raced,
                   coll, created, points, uuids, inflight, resp>>

\* ------------------------------------------------------- startup_event
\* a startup that creates without looking at the listing
AfterListAlwaysCreates(ok, names) ==
    IF ~ok THEN [pc |-> "ready", line |-> "Error: unavailable"]
    ELSE [pc |-> "checked", line |-> ""]

\* where startup goes after client.get_collections(): "ready" with a
\* printed line, or on to create_collection
AfterList(ok, names) ==
    IF ~ok THEN [pc |-> "ready", line |-> "Error: unavailable"]
    ELSE IF COLLECTION_NAME \notin names
         THEN [pc |-> "checked", line |-> ""]
         ELSE [pc |-> "ready", line |-> "Collection exists"]

\* the printed line after client.create_collection(...): the store refuses
\* a name it already holds, and the except branch prints the exception
AfterCreate(ok, c) ==
    IF ~ok THEN "Error: unavailable"
    ELSE IF c.exists THEN "Error: already exists"
    ELSE "Created collection"

\* an except branch that raises again: the process does not come up
AfterExceptAborts == "crashed"

\* where the process is after the except branch of startup_event
AfterExcept == "ready"

\* try: collections = client.get_collections(); if COLLECTION_NAME not in ...
StartupList(p) ==
    /\ pc[p] = "startup"
    /\ \E ok \in BOOLEAN :
         LET a == AfterList(ok, CollectionNames(coll))
         IN /\ pc' = [pc EXCEPT ![p] = IF ok THEN a.pc ELSE AfterExcept]
            /\ log' = [log EXCEPT ![p] =
                          IF a.line = "" THEN @ ELSE Append(@, a.line)]
    /\ listCalls' = [listCalls EXCEPT ![p] = @ + 1]
    /\ raced' = (raced \/ \E q \in Procs \ {p} : pc[q] = "checked")
    /\ UNCHANGED <<file, app, createCalls, coll, created, points, uuids,
                   inflight, resp>>

\* client.create_collection(collection_name=..., vectors_config=
\*     VectorParams(size=1536, distance=Distance.COSINE))
StartupCreate(p) ==
    /\ pc[p] = "checked"
    /\ \E ok \in BOOLEAN :
         LET line == AfterCreate(ok, coll)
             done == line = "Created collection"
         IN /\ coll' = IF done
                       THEN [exists |-> TRUE, size |-> CollectionSize,
                             distance |-> CollectionDistance]
                       ELSE coll
            /\ created' = IF done THEN created + 1 ELSE created
            /\ log' = [log EXCEPT ![p] = Append(@, line)]
            /\ pc' = [pc EXCEPT ![p] = IF done THEN "ready" ELSE AfterExcept]
    /\ createCalls' = [createCalls EXCEPT ![p] = @ + 1]
    /\ UNCHANGED <<file, app, listCalls, raced, points, uuids, inflight, resp>>

\* ------------------------------------------------------------ handlers
Admit(p) == Serving(p) /\ Arrived < MaxRequests

Await(p) == Admit(p) /\ app[p] = "rag" /\ Cardinality(inflight) < MaxInFlight

\* a handler that forgets the check of text
TextNeverMissing(text) == FALSE

\* "if not text: raise HTTPException(status_code=400, ...)"
TextMissing(text) == IsEmpty(text)

\* a handler that forgets the check of query
QueryNeverMissing(query) == FALSE

\* "if not query: raise HTTPException(status_code=400, ...)"
QueryMissing(query) == IsEmpty(query)

\* an except branch that passes the provider's message on
EmbeddingFailureLeaks ==
    [status |-> 500, body |-> HTTPError("Embedding failed: RateLimitError")]

\* the except branch of get_embedding
EmbeddingFailure == [status |-> 500, body |-> HTTPError("Embedding failed")]

\* root and health of the minimal server
RootBodyMinimal == [system |-> "AI Core 2026", status |-> "production"]

HealthBodyMinimal == [status |-> "healthy"]

\* root and health of the server a process has loaded
RootBody(a) ==
    IF a = "rag" THEN [system |-> "AI Core 2026 RAG", status |-> "ready"]
    ELSE RootBodyMinimal

HealthBody(a) ==
    IF a = "rag" THEN [status |-> "healthy", services |-> "ok"]
    ELSE HealthBodyMinimal

\* root and health return their descriptor and call nobody
RootReply(a) == [status |-> 200, body |-> RootBody(a), calls |-> {}]

\* a health handler that probes the store and reports what it finds
HealthReplyProbes(a) ==
    [status |-> IF coll.exists THEN 200 ELSE 503,
     body |-> HealthBody(a), calls |-> {"search"}]

HealthReply(a) == [status |-> 200, body |-> HealthBody(a), calls |-> {}]

\* GET /
Root(p) ==
    /\ Admit(p)
    /\ LET a == RootReply(app[p])
       IN resp' = Response(resp.n + 1, "root", <<>>, 0, a.status, a.body,
                           a.calls, "none", "none")
    /\ UNCHANGED <<file, app, pc, log, listCalls, createCalls, raced, coll, created, points, uuids, inflight>>

\* GET /health
Health(p) ==
    /\ Admit(p)
    /\ LET a == HealthReply(app[p])
       IN resp' = Response(resp.n + 1, "health", <<>>, 0, a.status, a.body,
                           a.calls, "none", "none")
    /\ UNCHANGED <<file, app, pc, log, listCalls, createCalls, raced, coll, created, points, uuids, inflight>>

\* a handler up to its "await get_embedding(...)": it answers 400 at once
\* when refused, else it waits for the provider
Begin(p, kind, text, limit, refused, detail) ==
    /\ IF refused
       THEN /\ resp' = Response(resp.n + 1, kind, text, limit, 400,
                                HTTPError(detail), {}, "none", "none")
            /\ UNCHANGED inflight
       ELSE /\ Request(kind, text, limit) \notin inflight
            /\ inflight' = inflight \cup {Request(kind, text, limit)}
            /\ UNCHANGED resp
    /\ UNCHANGED <<file, app, pc, log, listCalls, createCalls, raced, coll, created, points, uuids>>

\* POST /add_document, to the await
AddDocument(p, text) ==
    /\ IF TextMissing(text) THEN Admit(p) /\ app[p] = "rag" ELSE Await(p)
    /\ Begin(p, "add_document", text, 0, TextMissing(text), "Text required")

\* GET /search, to the await
Search(p, query, limit) ==
    /\ IF QueryMissing(query) THEN Admit(p) /\ app[p] = "rag" ELSE Await(p)
    /\ Begin(p, "search", query, limit, QueryMissing(query), "Query required")

\* GET /embed, to the await (an omitted text is "Hello")
Embed(p, text) ==
    /\ Await(p)
    /\ Begin(p, "embed", text, 0, FALSE, "")

Reply(r, status, body, calls, provider, store) ==
    Response(resp.n + 1, r.kind, r.text, r.limit, status, body, calls,
             provider, store)

\* the response when get_embedding raised
EmbeddingFailed(r) ==
    Reply(r, EmbeddingFailure.status, EmbeddingFailure.body, {"embedding"},
          "failed", "none")

\* add_document after the await: uuid4, PointStruct, client.upsert, return
AddDocumentResume(r) ==
    /\ r \in inflight /\ r.kind = "add_document"
    /\ inflight' = inflight \ {r}
    /\ \E eok \in ProviderOutcomes(r.text), sok \in BOOLEAN :
         IF ~eok
         THEN /\ resp' = EmbeddingFailed(r)
              /\ UNCHANGED <<points, uuids>>
         ELSE LET embedding == ProviderEmbedding(r.text)
                  doc_id == uuids + 1
                  id == PointId(doc_id)
              IN /\ uuids' = doc_id
                 /\ IF sok /\ UpsertAccepted(coll, embedding)
                    THEN /\ points' =
                              [i \in DOMAIN points \cup {id} |->
                                  IF i = id THEN Point(embedding, r.text)
                                  ELSE points[i]]
                         /\ resp' = Reply(r, 200,
                                          [status |-> "added", id |-> doc_id],
                                          {"embedding", "uuid4", "upsert"},
                                          "ok", "ok")
                    ELSE /\ UNCHANGED points
                         /\ resp' = Reply(r, 500, InternalError,
                                          {"embedding", "uuid4", "upsert"},
                                          "ok",
                                          StoreOutcome(sok, UpsertAccepted(
                                                           coll, embedding)))
    /\ UNCHANGED <<file, app, pc, log, listCalls, createCalls, raced, coll, created>>

\* search after the await: client.search, then the response
SearchResume(r) ==
    /\ r \in inflight /\ r.kind = "search"
    /\ inflight' = inflight \ {r}
    /\ \E eok \in ProviderOutcomes(r.text), sok \in BOOLEAN,
          lenient \in BOOLEAN :
         IF ~eok
         THEN resp' = EmbeddingFailed(r)
         ELSE LET q == ProviderEmbedding(r.text)
                  k == SearchLimitArg(r.limit)
                  accepted == SearchAccepted(coll, q, k, lenient)
              IN IF sok /\ accepted
                 THEN \E hits \in StoreSearch(points, q, k) :
                        resp' = Reply(r, 200,
                                      [query |-> r.text,
                                       results |-> ResultList(points, q, hits)],
                                      {"embedding", "search"}, "ok", "ok")
                 ELSE resp' = Reply(r, 500, InternalError,
                                    {"embedding", "search"}, "ok",
                                    StoreOutcome(sok, accepted))
    /\ UNCHANGED <<file, app, pc, log, listCalls, createCalls, raced, coll, created, points, uuids>>

\* embed after the await
EmbedResume(r) ==
    /\ r \in inflight /\ r.kind = "embed"
    /\ inflight' = inflight \ {r}
    /\ \E eok \in ProviderOutcomes(r.text) :
         IF ~eok
         THEN resp' = EmbeddingFailed(r)
         ELSE LET embedding == ProviderEmbedding(r.text)
              IN resp' = Reply(r, 200,
                               [text |-> r.text,
                                dimensions |-> embedding.dim,
                                sample |-> Sample(embedding)],
                               {"embedding"}, "ok", "none")
    /\ UNCHANGED <<file, app, pc, log, listCalls, createCalls, raced, coll, created, points, uuids>>

\* ------------------------------------------------------- specification
Next ==
    \/ CreateRag
    \/ \E p \in Procs : Boot(p)
    \/ \E p \in Procs : StartupList(p)
    \/ \E p \in Procs : StartupCreate(p)
    \/ \E p \in Procs : Root(p)
    \/ \E p \in Procs : Health(p)
    \/ \E p \in Procs, text \in Texts : AddDocument(p, text)
    \/ \E p \in Procs, query \in Queries, limit \in Limits :
          Search(p, query, limit)
    \/ \E p \in Procs, text \in EmbedTexts : Embed(p, text)
    \/ \E r \in inflight : AddDocumentResume(r)
    \/ \E r \in inflight : SearchResume(r)
    \/ \E r \in inflight : EmbedResume(r)

Spec == Init /\ [][Next]_vars

TypeOK ==
    /\ file \in {"minimal", "rag"}
    /\ app \in [Procs -> {"none", "minimal", "rag"}]
    /\ pc \in [Procs -> {"off", "startup", "checked", "ready"}]
    /\ Arrived \in 0..MaxRequests
    /\ Cardinality(inflight) <= MaxInFlight
    /\ uuids \in 0..(Len(PriorTexts) + MaxRequests)
    /\ DOMAIN points \subseteq 1..uuids

\* ------------------------------------------------------------- steps
\* this step sends the response of a handler of this kind
Answers(kind) == resp'.n # resp.n /\ resp'.kind = kind

\* this step suspends a handler of this kind at its await
Begins(kind) == \E r \in inflight' \ inflight : r.kind = kind

StoreUnchanged == points' = points /\ coll' = coll /\ created' = created

\* ------------------------------------------------------------- claims
\* C1: add_document with empty text ends in the 400 "Text required"
\* failure; the request calls neither the provider nor uuid4 nor the store,
\* never waits for the provider, and leaves the store as it was, whatever
\* the store holds and whatever else is in flight.
C1_EmptyTextRefused ==
    /\ [](\A r \in inflight : r.kind = "add_document" => r.text # <<>>)
    /\ [][(Answers("add_document") /\ resp'.text = <<>>)
            => /\ resp'.status = 400
               /\ resp'.body = HTTPError("Text required")
               /\ resp'.calls = {}
               /\ resp'.provider = "none" /\ resp'.store = "none"
               /\ StoreUnchanged /\ uuids' = uuids
               /\ inflight' = inflight]_vars

C1_Witness ==
    /\ resp.kind = "add_document" /\ resp.text = <<>> /\ resp.status = 400
    /\ inflight # {}
    /\ DOMAIN points # {}

\* C2: search with an empty query ends in the 400 "Query required" failure
\* for every limit; the request calls neither the provider nor the store
\* and never waits for the provider.
C2_EmptyQueryRefused ==
    /\ [](\A r \in inflight : r.kind = "search" => r.text # <<>>)
    /\ [][(Answers("search") /\ resp'.text = <<>>)
            => /\ resp'.status = 400
               /\ resp'.body = HTTPError("Query required")
               /\ resp'.calls = {}
               /\ resp'.provider = "none" /\ resp'.store = "none"
               /\ StoreUnchanged /\ uuids' = uuids
               /\ inflight' = inflight]_vars

C2_Witness ==
    /\ resp.kind = "search" /\ resp.text = <<>> /\ resp.status = 400
    /\ resp.limit = 0
    /\ DOMAIN points # {}

\* C3: when the provider fails, add_document, search and embed each end in
\* the 500 failure with the generic message "Embedding failed"; no uuid is
\* generated, the store is not called and holds what it held.
C3_EmbeddingFailureIs500 ==
    [][(resp'.n # resp.n /\ resp'.provider = "failed")
         => /\ resp'.kind \in {"add_document", "search", "embed"}
            /\ resp'.status = 500
            /\ resp'.body = HTTPError("Embedding failed")
            /\ resp'.calls = {"embedding"}
            /\ resp'.store = "none"
            /\ uuids' = uuids
            /\ StoreUnchanged]_vars

C3_Witness ==
    /\ resp.kind = "add_document" /\ resp.text # <<>>
    /\ resp.provider = "failed" /\ resp.status = 500
    /\ DOMAIN points # {}

\* --------------------------------------------------------- bootstrap
RECURSIVE SumOver(_, _)
SumOver(f, S) ==
    IF S = {} THEN 0
    ELSE LET x == CHOOSE y \in S : TRUE IN f[x] + SumOver(f, S \ {x})

\* the startup of p has run to its end
Started(p) == app[p] = "rag" /\ pc[p] = "ready"

AllStarted == \A p \in Procs : Started(p)

Printed(p, line) == log[p] = <<line>>

Succeeded(p) == Printed(p, "Created collection")
                \/ Printed(p, "Collection exists")

\* C4 as stated: two startups in a row issue create_collection at most once
\* and leave exactly one collection of the name.
C4_AsStated ==
    (AllStarted /\ ~raced)
        => /\ SumOver(createCalls, Procs) <= 1
           /\ coll.exists

\* C4, amended: with startups that run one after the other, none aborts,
\* create_collection is issued only when the listing lacks the collection
\* (so the store never refuses it as existing), succeeds at most once, and
\* is issued a second time only after a startup met an unreachable store;
\* there is never a second collection of the name, and there is one as soon
\* as one startup got through without a store failure.
C4_SequentialBootstrap ==
    ~raced
        => /\ \A p \in Procs : ~Printed(p, "Error: already exists")
           /\ \A p \in Procs : pc[p] \in {"off", "startup", "checked", "ready"}
           /\ created <= 1
           /\ SumOver(createCalls, Procs) >= 2
                 => \E p \in Procs : Printed(p, "Error: unavailable")
           /\ (\E p \in Procs : Succeeded(p)) => coll.exists
           /\ \A p \in Procs : Printed(p, "Collection exists")
                 => createCalls[p] = 0

C4_Witness ==
    /\ AllStarted /\ ~raced
    /\ created = 1
    /\ \E p, q \in Procs :
          Printed(p, "Created collection") /\ Printed(q, "Collection exists")

\* C5: whenever all processes have finished startup and the store was
\* reachable throughout, every process finished with success (the refusal
\* of a second creation counts as success) and the store holds the
\* collection, created at most once.
C5_RaceEndsInSuccess ==
    (AllStarted /\ \A p \in Procs : ~Printed(p, "Error: unavailable"))
        => /\ \A p \in Procs : Succeeded(p)
           /\ coll.exists
           /\ created <= 1

\* C6: each process runs the collection check once and to its end before
\* it serves a request; a failure in it is printed, the process does not
\* abort, and its handlers are served afterwards.
C6_StartupBeforeServing ==
    \A p \in Procs :
       /\ pc[p] \in {"off", "startup", "checked", "ready"}
       /\ listCalls[p] <= 1 /\ createCalls[p] <= 1
       /\ Started(p) => listCalls[p] = 1 /\ Len(log[p]) = 1
       /\ pc[p] # "ready"
             => /\ Len(log[p]) = 0
                /\ ~ENABLED (Root(p) \/ Health(p))
                /\ ~ENABLED (\E t \in Texts : AddDocument(p, t))
                /\ ~ENABLED (\E t \in Queries, k \in Limits : Search(p, t, k))
                /\ ~ENABLED (\E t \in EmbedTexts : Embed(p, t))
       /\ (Len(log[p]) > 0 /\ ~Succeeded(p))
             => /\ pc[p] = "ready"
                /\ Arrived < MaxRequests
                      => /\ ENABLED AddDocument(p, <<>>)
                         /\ ENABLED Search(p, <<>>, DefaultLimit)
                         /\ ENABLED Root(p)

C6_Witness ==
    /\ \E p \in Procs :
          /\ Printed(p, "Error: unavailable")
          /\ \A q \in Procs \ {p} : pc[q] = "off"
    /\ resp.kind = "add_document" /\ resp.provider = "ok"

\* --------------------------------------------------------- documents
\* C7: a successful add_document adds one document under the uuid the
\* handler has just generated, which no stored document has; the document
\* holds the request's text and embedding and the response returns its id.
\* No step of any handler removes or changes a stored document, and only a
\* successful add_document changes the stored documents at all.
C7_AddsOneFreshDocument ==
    [][/\ \A i \in DOMAIN points :
             i \in DOMAIN points' /\ points'[i] = points[i]
       /\ (Answers("add_document") /\ resp'.status = 200)
             => /\ resp'.text # <<>>
                /\ resp'.body.status = "added"
                /\ resp'.body.id = uuids' /\ uuids' = uuids + 1
                /\ "uuid4" \in resp'.calls
                /\ resp'.body.id \notin DOMAIN points
                /\ DOMAIN points' = DOMAIN points \cup {resp'.body.id}
                /\ points'[resp'.body.id].payload.text = resp'.text
                /\ points'[resp'.body.id].vector = ProviderEmbedding(resp'.text)
       /\ points' # points
             => Answers("add_document") /\ resp'.status = 200]_vars

C7_Witness ==
    /\ resp.kind = "add_document" /\ resp.status = 200
    /\ Cardinality(DOMAIN points) = Len(PriorTexts) + 2
    /\ resp.body.id = Len(PriorTexts) + 2

\* the scores of a result list never rise
Descending(results) ==
    \A i \in 1..(Len(results) - 1) : results[i].score >= results[i + 1].score

C9_DimensionInvariant ==
    /\ [](/\ \A i \in DOMAIN points :
                coll.exists /\ points[i].vector.dim = coll.size
          /\ created > 0
                => coll.size = 1536 /\ coll.distance = "Cosine"
          /\ (resp.kind = "embed" /\ resp.status = 200)
                => resp.body.dimensions = 1536)
    /\ [][/\ coll.exists => coll' = coll
          /\ (/\ Answers("add_document") /\ resp'.provider = "ok"
              /\ (~coll.exists
                    \/ coll.size # ProviderEmbedding(resp'.text).dim))
                => /\ resp'.status = 500
                   /\ resp'.store \in {"refused", "unavailable"}
                   /\ points' = points]_vars

C9_Witness ==
    /\ resp.kind = "add_document" /\ resp.store = "refused"
    /\ coll.exists /\ coll.size # 1536
    /\ DOMAIN points = {}

\* C10: no step of root, health, embed or search changes the stored
\* documents or the collection; root and health answer 200 and call neither
\* the provider nor the store, and a process that is up answers them in
\* every state, also after a failed startup.
C10_ReadOnlyHandlers ==
    /\ [](/\ resp.kind \in {"root", "health"}
                => /\ resp.status = 200 /\ resp.calls = {}
                   /\ resp.provider = "none" /\ resp.store = "none"
          /\ \A p \in Procs :
                (pc[p] = "ready" /\ Arrived < MaxRequests)
                   => ENABLED Root(p) /\ ENABLED Health(p))
    /\ [][\A kind \in {"root", "health", "embed", "search"} :
             (Answers(kind) \/ Begins(kind))
                => StoreUnchanged /\ uuids' = uuids]_vars

C10_Witness ==
    /\ resp.kind = "health" /\ resp.status = 200
    /\ \E p \in Procs :
          /\ Printed(p, "Error: unavailable")
          /\ \A q \in Procs \ {p} : pc[q] = "off"
    /\ ~coll.exists

====
